---- MODULE Spec2Model ----
(***************************************************************************)
(* Model of av1transcoder/argument_parser.py: the constrained integer      *)
(* types, CropValues, the option schema as far as it decides how a value   *)
(* token is converted, and parse_args() with its two derivation steps      *)
(* (keep-temp implication, crop-value association).  The crop-value source *)
(* returned by parse_args() is an itertools iterator; its consumption by   *)
(* the pipeline (zip with the input files) is modelled as well.            *)
(***************************************************************************)
EXTENDS Integers, Sequences, FiniteSets, TLC

VARIABLES argv, pc, args, err, cons, tin, tcall, tres

vars == <<argv, pc, args, err, cons, tin, tcall, tres>>

(* ---------------------------- bounds ---------------------------------- *)
MaxFiles == 3
MaxCrops == 2
NumConsumers == 2
MaxInt == 2

(* ------------------------- python values ------------------------------ *)
\* Python's None; optional values are sequences of length 0 or 1.
None == <<>>

\* Outcome of a constructor call that raised ValueError.
ValueError == [ok |-> FALSE, val |-> 0]

\* A command-line value token: an optional sign prefix ("", "-" or " -",
\* the last one being a token with a leading blank) followed by digits.
Tok(s, m) == [sign |-> s, mag |-> m]

\* int(token), the super().__new__ call of the constrained types on a
\* string: blanks are stripped, then sign and digits are read.
IntValue(t) == IF t.sign = "" THEN t.mag ELSE 0 - t.mag

\* Mutation: the range check is dropped.
NonNegativeIntUnchecked(new) == [ok |-> TRUE, val |-> new]

\* NonNegativeInt.__new__ on the int value new: ValueError when new < 0.
NonNegativeInt(new) == IF new < 0 THEN ValueError ELSE [ok |-> TRUE, val |-> new]

\* Mutation: zero is accepted.
PositiveIntAllowsZero(new) == IF new < 0 THEN ValueError ELSE [ok |-> TRUE, val |-> new]

\* PositiveInt.__new__ on the int value new: ValueError when new <= 0.
PositiveInt(new) == IF new <= 0 THEN ValueError ELSE [ok |-> TRUE, val |-> new]

\* CropValues(*values): a NamedTuple of four fields.  The field annotations
\* are not enforced; only the number of arguments is (TypeError otherwise).
CropValues(values) == IF Len(values) # 4 THEN [ok |-> FALSE, val |-> <<>>]
                      ELSE [ok |-> TRUE, val |-> values]

top(cv) == cv[1]
bottom(cv) == cv[2]
left(cv) == cv[3]
right(cv) == cv[4]

\* Mutation: the height mixes in a horizontal component.
crop_height_mixed(cv) == top(cv) + left(cv)

crop_height(cv) == top(cv) + bottom(cv)

crop_width(cv) == left(cv) + right(cv)

(* ------------------------- option schema ------------------------------ *)
\* Defaults declared by _generate_argument_parser.
DefaultMinSceneLength == 30
DefaultMaxConcurrentEncodes == 8

\* Error kinds of ArgumentParser.error (exit status 2).
NoError == "none"
OutOfRange == "invalid value"
Arity == "expected arguments"

\* The schema declares the short option "-1", so argparse treats every
\* token that begins with "-" as an option string, negative numbers
\* included; a token with a leading blank stays a value.
OptionLike(t) == t.sign = "-"

\* An occurrence of a single-valued option: "-m VALUE" (form "sep") or
\* "-m=VALUE" / "--min-scene-length=VALUE" (form "eq").
Occ(f, t) == <<[form |-> f, tok |-> t]>>

\* action="store", type=PositiveInt: the converted value of one occurrence.
\* "sep" followed by an option-like token leaves the option without its
\* argument; a ValueError of the type callable is reported as invalid value.
StorePositiveInt(occ) ==
    IF occ[1].form = "sep" /\ OptionLike(occ[1].tok)
    THEN [err |-> Arity, val |-> 0]
    ELSE IF PositiveInt(IntValue(occ[1].tok)).ok
         THEN [err |-> NoError, val |-> PositiveInt(IntValue(occ[1].tok)).val]
         ELSE [err |-> OutOfRange, val |-> 0]

\* The tokens "--crop" consumes: the leading run of value tokens.
RECURSIVE ValueRun(_)
ValueRun(toks) == IF toks = <<>> \/ OptionLike(Head(toks)) THEN <<>>
                  ELSE <<Head(toks)>> \o ValueRun(Tail(toks))

\* action="append", nargs=4, type=NonNegativeInt: one "--crop" occurrence
\* gives a list of four NonNegativeInt, or an error.
AppendCrop(toks) ==
    IF Len(ValueRun(toks)) < 4
    THEN [err |-> Arity, val |-> <<>>]
    ELSE IF \E i \in 1..4 : ~NonNegativeInt(IntValue(toks[i])).ok
         THEN [err |-> OutOfRange, val |-> <<>>]
         ELSE [err |-> NoError,
               val |-> [i \in 1..4 |-> NonNegativeInt(IntValue(toks[i])).val]]

\* First error among a sequence of conversion results, in command-line order.
RECURSIVE FirstError(_)
FirstError(rs) == IF rs = <<>> THEN NoError
                  ELSE IF Head(rs).err # NoError THEN Head(rs).err
                  ELSE FirstError(Tail(rs))

\* Conversion result of an optional single-valued PositiveInt option.
OptPositive(o) == IF o = None THEN [err |-> NoError, val |-> 0] ELSE StorePositiveInt(o)

\* ArgumentParser.parse_args on the command line a: the raw namespace, or
\* the error that ends the process.
ParserParseArgs(a) ==
    LET m == OptPositive(a.min_scene_length)
        c == OptPositive(a.max_concurrent_encodes)
        l == OptPositive(a.limit_encodes)
        crops == [i \in 1..Len(a.crop) |-> AppendCrop(a.crop[i])]
        e == FirstError(<<m, c, l>> \o crops)
    IN [err |-> e,
        ns |-> [input_files |-> a.input_files,
                keep_temp |-> a.keep_temp,
                min_scene_length |->
                    IF a.min_scene_length = None THEN DefaultMinSceneLength ELSE m.val,
                max_concurrent_encodes |->
                    IF a.max_concurrent_encodes = None THEN DefaultMaxConcurrentEncodes
                    ELSE c.val,
                dump_commands |-> a.dump_commands,
                limit_encodes |-> IF a.limit_encodes = None THEN None ELSE <<l.val>>,
                crop_values |-> [i \in 1..Len(a.crop) |-> crops[i].val],
                ffmpeg |-> "ffmpeg"]]

(* --------------------------- derivation ------------------------------- *)
\* Mutation: both conditions are required.
KeepTempBoth(ns) == IF ns.dump_commands # "no" /\ ns.limit_encodes # None
                    THEN TRUE ELSE ns.keep_temp

\* Mutation: temporary data is always kept.
KeepTempAlways(ns) == TRUE

\* keep_temp after "if args.dump_commands != 'no' or args.limit_encodes is
\* not None: args.keep_temp = True".
KeepTemp(ns) == IF ns.dump_commands # "no" \/ ns.limit_encodes # None
                THEN TRUE ELSE ns.keep_temp

\* times of an itertools.repeat without a count.
Forever == -1

\* itertools.chain(items, itertools.repeat(rep, times)) as iterator state;
\* itertools.repeat(rep, times) alone has no items.
Chain(items, rep, times) == [items |-> items, rep |-> rep, times |-> times]

\* next(it): the value produced (or StopIteration) and the iterator after it.
IterNext(it) ==
    IF it.items # <<>>
    THEN [stop |-> FALSE, value |-> Head(it.items),
          it |-> [it EXCEPT !.items = Tail(it.items)]]
    ELSE IF it.times = Forever
    THEN [stop |-> FALSE, value |-> it.rep, it |-> it]
    ELSE IF it.times > 0
    THEN [stop |-> FALSE, value |-> it.rep, it |-> [it EXCEPT !.times = it.times - 1]]
    ELSE [stop |-> TRUE, value |-> None, it |-> it]

\* Mutation: the first crop value is the one repeated.
CropSourceRepeatFirst(crop_values, input_files) ==
    IF crop_values # <<>>
    THEN [ok |-> TRUE, it |-> Chain(crop_values, crop_values[1], Forever)]
    ELSE [ok |-> TRUE, it |-> Chain(<<>>, None, Len(input_files))]

\* Mutation: the markers are repeated without a count.
CropSourceUncounted(crop_values, input_files) ==
    IF crop_values # <<>>
    THEN [ok |-> TRUE, it |-> Chain(crop_values, crop_values[Len(crop_values)], Forever)]
    ELSE [ok |-> TRUE, it |-> Chain(<<>>, None, Forever)]

\* Mutation: the emptiness test is missing, crop_values[-1] raises IndexError.
CropSourceNoGuard(crop_values, input_files) ==
    IF crop_values # <<>>
    THEN [ok |-> TRUE, it |-> Chain(crop_values, crop_values[Len(crop_values)], Forever)]
    ELSE [ok |-> FALSE, it |-> Chain(<<>>, None, 0)]

\* The crop-value source: chain(crop_values, repeat(crop_values[-1])) when
\* there are crop values, repeat(None, times=len(input_files)) otherwise.
CropSource(crop_values, input_files) ==
    IF crop_values # <<>>
    THEN [ok |-> TRUE, it |-> Chain(crop_values, crop_values[Len(crop_values)], Forever)]
    ELSE [ok |-> TRUE, it |-> Chain(<<>>, None, Len(input_files))]

\* [CropValues(*values) for values in args.crop_values]
PackCrops(raw) == [i \in 1..Len(raw) |-> CropValues(raw[i])]

(* ------------------------- command lines ------------------------------ *)
MinSceneArgs == {None, Occ("sep", Tok("", 0)), Occ("sep", Tok("", 45))}
MaxConcurrentArgs == {None, Occ("sep", Tok("-", 2)), Occ("eq", Tok("-", 2))}
LimitArgs == {None, Occ("sep", Tok("", 0)), Occ("sep", Tok("", 3))}
DumpArgs == {"yes", "no", "only"}

\* "--crop 1 2 3 4", "--crop 0 0 1 1", "--crop 1 2 -3 4", "--crop 1 2 ' -3' 4"
CropArgs == { <<Tok("", 1), Tok("", 2), Tok("", 3), Tok("", 4)>>,
              <<Tok("", 0), Tok("", 0), Tok("", 1), Tok("", 1)>>,
              <<Tok("", 1), Tok("", 2), Tok("-", 3), Tok("", 4)>>,
              <<Tok("", 1), Tok("", 2), Tok(" -", 3), Tok("", 4)>> }

SeqsUpTo(S, n) == UNION {[1..k -> S] : k \in 0..n}

\* nargs="+" input files, numbered in command-line order.
CommandLines ==
    [input_files : {[i \in 1..n |-> i] : n \in 1..MaxFiles},
     keep_temp : BOOLEAN,
     min_scene_length : MinSceneArgs,
     max_concurrent_encodes : MaxConcurrentArgs,
     dump_commands : DumpArgs,
     limit_encodes : LimitArgs,
     crop : SeqsUpTo(CropArgs, MaxCrops)]

Consumers == 1..NumConsumers

(* ------------------------------ state --------------------------------- *)
TypesIdle == /\ tin = <<0, 0, 0, 0>>
             /\ tcall = "none"
             /\ tres = [ok |-> TRUE, val |-> <<>>]

Init == /\ argv \in CommandLines
        /\ pc = "start"
        /\ args = <<>>
        /\ err = NoError
        /\ cons = [c \in Consumers |-> [got |-> <<>>, done |-> FALSE]]
        /\ TypesIdle

\* args = _generate_argument_parser().parse_args(); a parser error ends the
\* process with status 2 before anything else runs.
Parse == /\ pc = "start"
         /\ LET r == ParserParseArgs(argv)
            IN IF r.err # NoError
               THEN /\ pc' = "exit"
                    /\ err' = r.err
                    /\ args' = args
               ELSE /\ pc' = "parsed"
                    /\ err' = err
                    /\ args' = <<r.ns>>
         /\ UNCHANGED <<argv, cons, tin, tcall, tres>>

\* The keep-temp implication.
Imply == /\ pc = "parsed"
         /\ args' = <<[args[1] EXCEPT !.keep_temp = KeepTemp(args[1])]>>
         /\ pc' = "implied"
         /\ UNCHANGED <<argv, err, cons, tin, tcall, tres>>

\* Packing the crop tuples, building the crop-value source, return args.
\* An exception raised on the way leaves parse_args without a result.
Associate ==
    /\ pc = "implied"
    /\ LET packed == PackCrops(args[1].crop_values)
           crop_values == [i \in 1..Len(packed) |-> packed[i].val]
           src == CropSource(crop_values, args[1].input_files)
       IN IF (\E i \in 1..Len(packed) : ~packed[i].ok) \/ ~src.ok
          THEN /\ pc' = "raised"
               /\ args' = args
          ELSE /\ pc' = "returned"
               /\ args' = <<[args[1] EXCEPT !.crop_values = src.it]>>
    /\ UNCHANGED <<argv, err, cons, tin, tcall, tres>>

\* One step of a consumer's zip(args.input_files, args.crop_values): the
\* next input file, then next() on the shared crop-value source.
Consume(c) ==
    /\ pc = "returned"
    /\ ~cons[c].done
    /\ IF Len(cons[c].got) = Len(args[1].input_files)
       THEN /\ cons' = [cons EXCEPT ![c].done = TRUE]
            /\ args' = args
       ELSE LET n == IterNext(args[1].crop_values)
                f == args[1].input_files[Len(cons[c].got) + 1]
            IN IF n.stop
               THEN /\ cons' = [cons EXCEPT ![c].done = TRUE]
                    /\ args' = args
               ELSE /\ cons' = [cons EXCEPT ![c].got = Append(@, <<f, n.value>>)]
                    /\ args' = <<[args[1] EXCEPT !.crop_values = n.it]>>
    /\ UNCHANGED <<argv, pc, err, tin, tcall, tres>>

Next == \/ Parse
        \/ Imply
        \/ Associate
        \/ \E c \in Consumers : Consume(c)

Spec == Init /\ [][Next]_vars

(* ------------------ the value types on their own ---------------------- *)
TypeInputs == (0 - MaxInt)..MaxInt

ProgramIdle == /\ argv = [input_files |-> <<1>>, keep_temp |-> FALSE,
                          min_scene_length |-> None, max_concurrent_encodes |-> None,
                          dump_commands |-> "no", limit_encodes |-> None,
                          crop |-> <<>>]
               /\ pc = "idle"
               /\ args = <<>>
               /\ err = NoError
               /\ cons = [c \in Consumers |-> [got |-> <<>>, done |-> FALSE]]

TypesInit == /\ tin \in [1..4 -> TypeInputs]
             /\ tcall = "none"
             /\ tres = [ok |-> TRUE, val |-> <<>>]
             /\ ProgramIdle

\* A constructor call's outcome: the value, or nothing after ValueError.
Outcome(r) == IF r.ok THEN [ok |-> TRUE, val |-> <<r.val>>] ELSE [ok |-> FALSE, val |-> <<>>]

\* NonNegativeInt(n) on the first input.
NewNonNegativeInt == /\ tcall = "none"
                     /\ tcall' = "NonNegativeInt"
                     /\ tres' = Outcome(NonNegativeInt(tin[1]))
                     /\ UNCHANGED <<argv, pc, args, err, cons, tin>>

\* PositiveInt(n) on the first input.
NewPositiveInt == /\ tcall = "none"
                  /\ tcall' = "PositiveInt"
                  /\ tres' = Outcome(PositiveInt(tin[1]))
                  /\ UNCHANGED <<argv, pc, args, err, cons, tin>>

\* CropValues(t, b, l, r) on the four inputs as they are.
NewCropValues == /\ tcall = "none"
                 /\ tcall' = "CropValues"
                 /\ tres' = CropValues(tin)
                 /\ UNCHANGED <<argv, pc, args, err, cons, tin>>

\* CropValues(*values) on four values that were each constructed as
\* NonNegativeInt, as parse_args does with the parser's tuples.
NewCropValuesOfNonNegative ==
    /\ tcall = "none"
    /\ \A i \in 1..4 : NonNegativeInt(tin[i]).ok
    /\ tcall' = "CropValuesOfNonNegative"
    /\ tres' = CropValues([i \in 1..4 |-> NonNegativeInt(tin[i]).val])
    /\ UNCHANGED <<argv, pc, args, err, cons, tin>>

\* Reading the crop_height property of the constructed CropValues.
ReadCropHeight == /\ tcall \in {"CropValues", "CropValuesOfNonNegative"}
                  /\ tres.ok
                  /\ tcall' = "crop_height"
                  /\ tres' = [ok |-> TRUE, val |-> <<crop_height(tres.val)>>]
                  /\ UNCHANGED <<argv, pc, args, err, cons, tin>>

\* Reading the crop_width property of the constructed CropValues.
ReadCropWidth == /\ tcall \in {"CropValues", "CropValuesOfNonNegative"}
                 /\ tres.ok
                 /\ tcall' = "crop_width"
                 /\ tres' = [ok |-> TRUE, val |-> <<crop_width(tres.val)>>]
                 /\ UNCHANGED <<argv, pc, args, err, cons, tin>>

TypesNext == \/ NewNonNegativeInt
             \/ NewPositiveInt
             \/ NewCropValues
             \/ NewCropValuesOfNonNegative
             \/ ReadCropHeight
             \/ ReadCropWidth

SpecTypes == TypesInit /\ [][TypesNext]_vars

(* ---------------------- helpers of the properties --------------------- *)
\* The first n values of the iterator it, fewer when it ends before.
RECURSIVE Take(_, _)
Take(it, n) == IF n = 0 \/ IterNext(it).stop THEN <<>>
               ELSE <<IterNext(it).value>> \o Take(IterNext(it).it, n - 1)

Min(a, b) == IF a < b THEN a ELSE b

\* The k-th "--crop" occurrence of the command line as four integers.
GivenCrop(k) == [i \in 1..4 |-> IntValue(argv.crop[k][i])]

NumFiles == Len(argv.input_files)
NumCrops == Len(argv.crop)

\* No consumer has touched the crop-value source yet.
Untouched == \A c \in Consumers : cons[c].got = <<>> /\ ~cons[c].done

\* Only consumer c has touched the crop-value source.
Sole(c) == \A d \in Consumers \ {c} : cons[d].got = <<>> /\ ~cons[d].done

Done == pc \in {"implied", "returned"}

(* ------------------------------ claims -------------------------------- *)
\* C1: the record parse_args returns has keep_temp = TRUE whenever
\* dump_commands is "yes" or "only" or limit_encodes is set, whatever
\* --keep-temp was; the implication is applied after parsing (the parsed
\* record still carries the flag as given) and before the return.
C1_KeepTempImplied ==
    /\ (pc = "parsed" => args[1].keep_temp = argv.keep_temp)
    /\ (Done /\ (args[1].dump_commands \in {"yes", "only"} \/ args[1].limit_encodes # None)
          => args[1].keep_temp = TRUE)

C1_Witness == /\ pc = "returned"
              /\ ~argv.keep_temp
              /\ args[1].dump_commands = "no"
              /\ args[1].limit_encodes = <<3>>
              /\ args[1].keep_temp

\* C2: with k >= 1 crop occurrences and N input files, pairing the derived
\* crop-value sequence positionally with the input files gives file i
\* (1-based here) the crop occurrence number min(i, k).
C2_TailRepetition ==
    (pc = "returned" /\ NumCrops >= 1) =>
        /\ Untouched =>
              Take(args[1].crop_values, NumFiles)
                = [i \in 1..NumFiles |-> GivenCrop(Min(i, NumCrops))]
        /\ \A c \in Consumers : Sole(c) =>
              \A i \in 1..Len(cons[c].got) :
                  cons[c].got[i] = <<argv.input_files[i], GivenCrop(Min(i, NumCrops))>>

C2_Witness == /\ pc = "returned"
              /\ NumCrops = 2
              /\ NumFiles = 3
              /\ GivenCrop(1) # GivenCrop(2)
              /\ Sole(1)
              /\ cons[1].done
              /\ Len(cons[1].got) = 3
              /\ cons[1].got[3] = <<3, GivenCrop(2)>>

\* C3: without a crop occurrence the derived crop-value sequence is exactly
\* N "no crop" markers and then ends.
C3_ExactlyNMarkers ==
    (pc = "returned" /\ NumCrops = 0) =>
        /\ Untouched =>
              Take(args[1].crop_values, NumFiles + 1) = [i \in 1..NumFiles |-> None]
        /\ \A c \in Consumers : Sole(c) =>
              /\ \A i \in 1..Len(cons[c].got) :
                    cons[c].got[i] = <<argv.input_files[i], None>>
              /\ Len(cons[c].got) = NumFiles =>
                    IterNext(args[1].crop_values).stop

C3_Witness == /\ pc = "returned"
              /\ NumCrops = 0
              /\ NumFiles = 2
              /\ Sole(1)
              /\ Len(cons[1].got) = 2
              /\ IterNext(args[1].crop_values).stop

\* A value of the command line violates the predicate of its type.
NonPositive(o) == o # None /\ IntValue(o[1].tok) <= 0

ViolatesType ==
    \/ NonPositive(argv.min_scene_length)
    \/ NonPositive(argv.max_concurrent_encodes)
    \/ NonPositive(argv.limit_encodes)
    \/ \E k \in 1..NumCrops : \E i \in 1..4 : IntValue(argv.crop[k][i]) < 0

\* C4: a command-line value that violates the predicate of its constrained
\* type makes parsing fail with an out-of-range error, no record is
\* produced and neither derivation step is reached.
C4_OutOfRangeError ==
    ViolatesType => /\ pc \in {"start", "exit"}
                    /\ args = <<>>
                    /\ (pc = "exit" => err = OutOfRange)

\* C5: NonNegativeInt(n) succeeds, with value n, iff n >= 0; PositiveInt(n)
\* succeeds, with value n, iff n > 0; otherwise no value is produced.
C5_ConstructionIff ==
    /\ tcall = "NonNegativeInt" =>
          /\ tres.ok <=> tin[1] >= 0
          /\ tres.val = IF tin[1] >= 0 THEN <<tin[1]>> ELSE <<>>
    /\ tcall = "PositiveInt" =>
          /\ tres.ok <=> tin[1] > 0
          /\ tres.val = IF tin[1] > 0 THEN <<tin[1]>> ELSE <<>>

C5_Witness == tcall = "PositiveInt" /\ tin[1] = 0 /\ ~tres.ok

\* C6: every consumer that pairs the crop-value source with the input files
\* observes the same association: every file, each with the same crop value
\* for every consumer.
C6_SameAssociation ==
    \A c \in Consumers :
        /\ cons[c].done => Len(cons[c].got) = NumFiles
        /\ \A d \in Consumers : \A i \in 1..Min(Len(cons[c].got), Len(cons[d].got)) :
              cons[c].got[i] = cons[d].got[i]

\* C7 as stated: constructing a CropValues fails when any of the four
\* values is negative, so that every CropValues has non-negative components.
C7_ConstructionValidates ==
    tcall = "CropValues" =>
        /\ (\E i \in 1..4 : tin[i] < 0) => ~tres.ok
        /\ tres.ok => \A i \in 1..4 : tres.val[i] >= 0

\* C7 as amended: constructing a CropValues never validates and never fails,
\* it stores the four values as given; a CropValues built from four values
\* that were each constructed as NonNegativeInt has four non-negative
\* components.
C7_ValidatedBeforeConstruction ==
    /\ tcall = "CropValues" => tres.ok /\ tres.val = tin
    /\ tcall = "CropValuesOfNonNegative" =>
          /\ tres.ok
          /\ tres.val = tin
          /\ \A i \in 1..4 : tres.val[i] >= 0

C7_Witness == /\ tcall = "CropValuesOfNonNegative"
              /\ tres.val = <<0, 1, 2, 0>>

\* C8: for a CropValues built from non-negative (t, b, l, r), crop_height
\* is t + b and crop_width is l + r.
C8_HeightWidth ==
    (\A i \in 1..4 : tin[i] >= 0) =>
        /\ tcall = "crop_height" => tres.val = <<tin[1] + tin[2]>>
        /\ tcall = "crop_width" => tres.val = <<tin[3] + tin[4]>>

C8_Witness == /\ tcall = "crop_height"
              /\ tin = <<1, 2, 0, 1>>
              /\ tres.val = <<3>>

\* C9: after a successful parse the derivation steps never raise: packing
\* the tuples and building the crop-value source succeed for the record at
\* hand, the process is never left by an exception, and a return hands out
\* a record.
C9_DerivationTotal ==
    /\ pc # "raised"
    /\ pc \in {"parsed", "implied"} =>
          /\ \A i \in 1..Len(args[1].crop_values) : CropValues(args[1].crop_values[i]).ok
          /\ CropSource(args[1].crop_values, args[1].input_files).ok
    /\ pc = "returned" => Len(args) = 1

C9_Witness == /\ pc = "returned"
              /\ NumCrops = 0
              /\ NumFiles = 1
              /\ args[1].limit_encodes = None
              /\ args[1].dump_commands = "only"

\* C10: the derivation changes only keep_temp and crop_values: with
\* dump_commands "no" and limit_encodes unset, keep_temp is the flag as
\* passed; every other field is what the parser produced.
C10_Frame ==
    Done =>
        /\ (args[1].dump_commands = "no" /\ args[1].limit_encodes = None)
              => args[1].keep_temp = argv.keep_temp
        /\ \A f \in {"input_files", "min_scene_length", "max_concurrent_encodes",
                     "dump_commands", "limit_encodes", "ffmpeg"} :
              args[1][f] = ParserParseArgs(argv).ns[f]
        /\ DOMAIN args[1] = DOMAIN ParserParseArgs(argv).ns

C10_Witness == /\ pc = "returned"
               /\ ~argv.keep_temp
               /\ ~args[1].keep_temp
               /\ args[1].min_scene_length = 45
               /\ NumCrops = 1

====
